---- MODULE Spec2Model ----
(***************************************************************************)
(* Smart Home Energy Monitor: the calculation and reporting pipeline       *)
(* (energy_monitor/calculations.py, reporting.py), the appliance file      *)
(* loader (storage.py), the interactive prompts (cli.py) and the run of    *)
(* main (main.py).                                                         *)
(*                                                                         *)
(* Numbers are Python floats: binary floating point, every operation       *)
(* rounded to nearest, ties to even.  The model keeps that arithmetic with *)
(* a significand of Precision bits instead of 53 (TLC's integers are 32    *)
(* bits wide); the exponent is unbounded.  nan and the infinities are      *)
(* values, because float() produces them from the texts "nan" and "inf".   *)
(*                                                                         *)
(* A report is text in the code; here it is the record of the values the   *)
(* text is formatted from (the numbers before "%.2f", the device ids of    *)
(* the lines), in the order the lines are appended.                        *)
(***************************************************************************)
EXTENDS Integers, Sequences, FiniteSets

VARIABLES
    pc,                 \* where the run of main stands
    file,               \* appliances.txt: its lines, or NoFile
    devices,            \* main.py:21, and the `devices` argument of reporting.py
    price_per_kwh,      \* main.py:40
    extra_daily_cost,   \* main.py:47
    threshold_kwh,      \* main.py:54
    cost_report,        \* main.py:62
    forecast_report,    \* main.py:63
    predictions_report, \* main.py:64
    alerts,             \* main.py:67-70
    alert_i,            \* the alert the print loop of main.py:76 stands at
    stdout,             \* what main has printed, in order
    out_files,          \* the files written under output/, in order
    retries,            \* entries the prompts have rejected so far
    call,               \* a reporting function applied directly: arguments and result
    headers,            \* format_table's arguments and result
    rows,
    table

mainVars == <<pc, file, price_per_kwh, extra_daily_cost, threshold_kwh, cost_report,
              forecast_report, predictions_report, alerts, alert_i, stdout,
              out_files, retries>>
tableVars == <<headers, rows, table>>
vars == <<mainVars, devices, call, tableVars>>

---------------------------------------------------------------------------
(* Bounds *)

\* bits of significand kept by the model's floats (53 in CPython)
Precision == 10
\* longest device list of the directly applied reporting functions
MaxDevices == 4
\* most lines of an appliance file
MaxLines == 2
\* most entries the prompts of a run reject
MaxRetries == 1

---------------------------------------------------------------------------
(* Python float *)

RECURSIVE Pow2(_)
Pow2(n) == IF n <= 0 THEN 1 ELSE 2 * Pow2(n - 1)

RECURSIVE Pow10(_)
Pow10(n) == IF n <= 0 THEN 1 ELSE 10 * Pow10(n - 1)

Abs(x) == IF x < 0 THEN -x ELSE x
Sgn(x) == IF x < 0 THEN -1 ELSE IF x = 0 THEN 0 ELSE 1

\* a finite float m * 2^e; m = 0 (and e = 0), or 2^(Precision-1) <= |m| < 2^Precision
Fin(m, e) == [k |-> "fin", m |-> m, e |-> e]
Zero == Fin(0, 0)
NaN == [k |-> "nan", m |-> 0, e |-> 0]
PInf == [k |-> "inf", m |-> 1, e |-> 0]
NInf == [k |-> "inf", m |-> -1, e |-> 0]

\* 2^Precision and 2^(Precision-1)
TwoP == Pow2(Precision)
HalfP == Pow2(Precision - 1)

IsNaN(a) == a.k = "nan"
IsInf(a) == a.k = "inf"
IsFin(a) == a.k = "fin"

\* the float nearest to s * (n / d) * 2^e, ties to even; n >= 0, d > 0, s in {-1, 1}
RECURSIVE RoundQ(_, _, _, _)
RoundQ(s, n, d, e) ==
    IF n = 0 THEN Zero
    ELSE IF n >= TwoP * d THEN RoundQ(s, n, 2 * d, e + 1)
    ELSE IF n < HalfP * d THEN RoundQ(s, 2 * n, d, e - 1)
    ELSE LET q == n \div d
             r == n % d
             m == IF 2 * r > d \/ (2 * r = d /\ q % 2 = 1) THEN q + 1 ELSE q
         IN  IF m = TwoP THEN Fin(s * HalfP, e + 1)
             ELSE Fin(s * m, e)

\* float("<n>e-<k>"), the float of the decimal numeral n / 10^k
Dec(n, k) == RoundQ(IF n < 0 THEN -1 ELSE 1, Abs(n), Pow10(k), 0)

\* a < b on floats (every comparison with nan is False)
FinLt(a, b) ==
    IF Sgn(a.m) # Sgn(b.m) THEN Sgn(a.m) < Sgn(b.m)
    ELSE IF a.m = 0 THEN FALSE
    ELSE IF a.m > 0 THEN a.e < b.e \/ (a.e = b.e /\ a.m < b.m)
    ELSE a.e > b.e \/ (a.e = b.e /\ a.m < b.m)

Lt(a, b) ==
    IF IsNaN(a) \/ IsNaN(b) THEN FALSE
    ELSE IF IsInf(a) THEN a.m < 0 /\ ~(IsInf(b) /\ b.m < 0)
    ELSE IF IsInf(b) THEN b.m > 0
    ELSE FinLt(a, b)

Gt(a, b) == Lt(b, a)
Le(a, b) == ~IsNaN(a) /\ ~IsNaN(b) /\ ~Lt(b, a)
Ge(a, b) == Le(b, a)

\* a + b
FinAdd(a, b) ==
    IF a.m = 0 THEN b
    ELSE IF b.m = 0 THEN a
    ELSE LET hi == IF a.e >= b.e THEN a ELSE b
             lo == IF a.e >= b.e THEN b ELSE a
             diff == hi.e - lo.e
         IN  IF diff >= Precision + 2 THEN hi
             ELSE LET M == hi.m * Pow2(diff) + lo.m
                  IN  RoundQ(IF M < 0 THEN -1 ELSE 1, Abs(M), 1, lo.e)

Add(a, b) ==
    IF IsNaN(a) \/ IsNaN(b) THEN NaN
    ELSE IF IsInf(a) /\ IsInf(b) THEN (IF a.m = b.m THEN a ELSE NaN)
    ELSE IF IsInf(a) THEN a
    ELSE IF IsInf(b) THEN b
    ELSE FinAdd(a, b)

\* a * b
Mul(a, b) ==
    IF IsNaN(a) \/ IsNaN(b) THEN NaN
    ELSE IF IsInf(a) \/ IsInf(b)
         THEN (IF a.m = 0 \/ b.m = 0 THEN NaN
               ELSE IF Sgn(a.m) = Sgn(b.m) THEN PInf ELSE NInf)
    ELSE RoundQ(IF Sgn(a.m) * Sgn(b.m) < 0 THEN -1 ELSE 1,
                Abs(a.m) * Abs(b.m), 1, a.e + b.e)

\* a / b for a finite b # 0 (the code divides by 1000.0 only)
Div(a, b) ==
    IF IsNaN(a) THEN NaN
    ELSE IF IsInf(a) THEN (IF Sgn(a.m) = Sgn(b.m) THEN PInf ELSE NInf)
    ELSE RoundQ(IF Sgn(a.m) * Sgn(b.m) < 0 THEN -1 ELSE 1,
                Abs(a.m), Abs(b.m), a.e - b.e)

---------------------------------------------------------------------------
(* energy_monitor/calculations.py *)

DAYS_PER_WEEK == 7
DAYS_PER_MONTH == 30

\* the float of a numeral of the source
F1000 == Dec(1000, 0)
F7 == Dec(7, 0)
F30 == Dec(30, 0)
F12 == Dec(12, 0)
F24 == Dec(24, 0)
F025 == Dec(25, 2)
FDaysPerWeek == Dec(DAYS_PER_WEEK, 0)
FDaysPerMonth == Dec(DAYS_PER_MONTH, 0)

daily_kwh(wattage_w, hours_per_day) ==
    Div(Mul(wattage_w, hours_per_day), F1000)

cost_for_kwh(kwh, price) == Mul(kwh, price)

daily_cost(wattage_w, hours_per_day, price) ==
    cost_for_kwh(daily_kwh(wattage_w, hours_per_day), price)

\* weekly_cost with the month's days for the week's
weekly_cost_of_a_month(wattage_w, hours_per_day, price) ==
    Mul(daily_cost(wattage_w, hours_per_day, price), FDaysPerMonth)

weekly_cost(wattage_w, hours_per_day, price) ==
    Mul(daily_cost(wattage_w, hours_per_day, price), FDaysPerWeek)

monthly_cost(wattage_w, hours_per_day, price) ==
    Mul(daily_cost(wattage_w, hours_per_day, price), FDaysPerMonth)

monthly_kwh(wattage_w, hours_per_day) ==
    Mul(daily_kwh(wattage_w, hours_per_day), FDaysPerMonth)

---------------------------------------------------------------------------
(* Python str: a sequence of one-character strings *)

\* the characters of the model, in code point order
Chars ==
    << " ", "#", "+", "-", ".",
       "0", "1", "2", "3", "4", "5", "6", "7", "8", "9",
       "A", "B", "C", "D", "E", "F", "G", "H", "I", "J", "K", "L", "M",
       "N", "O", "P", "Q", "R", "S", "T", "U", "V", "W", "X", "Y", "Z",
       "a", "b", "c", "d", "e", "f", "g", "h", "i", "j", "k", "l", "m",
       "n", "o", "p", "q", "r", "s", "t", "u", "v", "w", "x", "y", "z",
       "|" >>

Ord(c) == CHOOSE i \in 1..Len(Chars) : Chars[i] = c
IsUpper(c) == Ord(c) >= Ord("A") /\ Ord(c) <= Ord("Z")

\* str.lower()
LowerChar(c) == IF IsUpper(c) THEN Chars[Ord(c) - Ord("A") + Ord("a")] ELSE c
Lower(s) == [i \in 1..Len(s) |-> LowerChar(s[i])]

\* s < t on str (lexicographic by code point)
RECURSIVE StrLt(_, _)
StrLt(s, t) ==
    IF t = <<>> THEN FALSE
    ELSE IF s = <<>> THEN TRUE
    ELSE IF Head(s) # Head(t) THEN Ord(Head(s)) < Ord(Head(t))
    ELSE StrLt(Tail(s), Tail(t))

\* a name not bound yet (None), and a name bound to a value
None == <<>>
Some(x) == <<x>>

\* the texts of the model
Kitchen == <<"K", "i", "t", "c", "h", "e", "n">>
kitchen == <<"k", "i", "t", "c", "h", "e", "n">>
Hall == <<"H", "a", "l", "l">>
Unknown == <<"U", "n", "k", "n", "o", "w", "n">>

\* str.strip(): the blanks at both ends removed
RECURSIVE LStrip(_)
LStrip(s) == IF s # <<>> /\ Head(s) = " " THEN LStrip(Tail(s)) ELSE s

RECURSIVE RStrip(_)
RStrip(s) ==
    IF s # <<>> /\ s[Len(s)] = " " THEN RStrip(SubSeq(s, 1, Len(s) - 1)) ELSE s

Strip(s) == RStrip(LStrip(s))

\* str.startswith(c) for a one-character c
StartsWith(s, c) == s # <<>> /\ Head(s) = c

\* str.split(c) for a one-character c
Split(s, c) ==
    LET cuts == {i \in 1..Len(s) : s[i] = c}
        from(k) == IF k = 1 THEN 1
                   ELSE (CHOOSE i \in cuts : Cardinality({j \in cuts : j < i}) = k - 2) + 1
        to(k) == IF k = Cardinality(cuts) + 1 THEN Len(s)
                 ELSE (CHOOSE i \in cuts : Cardinality({j \in cuts : j < i}) = k - 1) - 1
    IN  [k \in 1..(Cardinality(cuts) + 1) |-> SubSeq(s, from(k), to(k))]

IsDigit(c) == Ord(c) >= Ord("0") /\ Ord(c) <= Ord("9")
DigitValue(c) == Ord(c) - Ord("0")

\* the number a string of digits writes
RECURSIVE DigitsValue(_)
DigitsValue(s) ==
    IF s = <<>> THEN 0 ELSE 10 * DigitsValue(SubSeq(s, 1, Len(s) - 1)) + DigitValue(s[Len(s)])

\* float(s): [ok |-> FALSE] is ValueError.  The numerals of the model are
\* [sign] digits [. digits], [sign] . digits, [sign] nan, inf, infinity;
\* no exponent and no underscore occurs in its inputs.
ParseFloat(str) ==
    LET s == Strip(str)
        signed == s # <<>> /\ Head(s) \in {"+", "-"}
        sign == IF signed /\ Head(s) = "-" THEN -1 ELSE 1
        body == IF signed THEN Tail(s) ELSE s
        dots == {i \in 1..Len(body) : body[i] = "."}
        dot == IF dots = {} THEN Len(body) + 1 ELSE CHOOSE i \in dots : TRUE
        int == SubSeq(body, 1, dot - 1)
        frac == SubSeq(body, dot + 1, Len(body))
    IN  IF body = <<"n", "a", "n">> THEN [ok |-> TRUE, val |-> NaN]
        ELSE IF body \in {<<"i", "n", "f">>, <<"i", "n", "f", "i", "n", "i", "t", "y">>}
             THEN [ok |-> TRUE, val |-> IF sign < 0 THEN NInf ELSE PInf]
        ELSE IF /\ Cardinality(dots) <= 1
                /\ Len(int) + Len(frac) >= 1
                /\ \A i \in 1..Len(int) : IsDigit(int[i])
                /\ \A i \in 1..Len(frac) : IsDigit(frac[i])
             THEN [ok |-> TRUE,
                   val |-> RoundQ(sign, DigitsValue(int \o frac), Pow10(Len(frac)), 0)]
        ELSE [ok |-> FALSE]

---------------------------------------------------------------------------
(* energy_monitor/models.py *)

Device(device_id, name, wattage, avg_hours_per_day, room_location) ==
    [device_id |-> device_id, name |-> name, wattage |-> wattage,
     avg_hours_per_day |-> avg_hours_per_day, room_location |-> room_location]

---------------------------------------------------------------------------
(* energy_monitor/calculations.py: validation *)

\* validate_price_per_kwh(price): TRUE when it raises ValueError
validate_price_per_kwh(price) == Le(price, Zero)

\* validate_device_values(wattage, hours): TRUE when it raises ValueError
validate_device_values(wattage, hours) ==
    \/ Le(wattage, Zero)
    \/ Lt(hours, Zero)
    \/ Gt(hours, F24)

---------------------------------------------------------------------------
(* energy_monitor/storage.py *)

\* the appliance file is its lines (read_text().splitlines()), NoFile when the
\* path does not exist, Unreadable when read_text raises OSError
NoFile == [kind |-> "missing", lines |-> <<>>]
Unreadable == [kind |-> "unreadable", lines |-> <<>>]
FileOf(lines) == [kind |-> "file", lines |-> lines]

Raised(error) == [status |-> error, devices |-> <<>>]
Returned(ds) == [status |-> "ok", devices |-> ds]

\* the loop of storage.py:19-56 over the lines left, then storage.py:58-61
RECURSIVE load_loop(_, _, _)
load_loop(lines, ds, seen_ids) ==
    IF lines = <<>>
    THEN (IF ds = <<>> THEN Raised("DataFileError") ELSE Returned(ds))
    ELSE LET line == Strip(Head(lines))
             parts == [i \in 1..Len(Split(line, "|")) |-> Strip(Split(line, "|")[i])]
             wattage == ParseFloat(parts[3])
             hours == ParseFloat(parts[4])
         IN  IF line = <<>> \/ StartsWith(line, "#")
             THEN load_loop(Tail(lines), ds, seen_ids)
             ELSE IF Len(parts) # 5 THEN Raised("DataFileError")
             ELSE IF parts[1] = <<>> THEN Raised("DataFileError")
             ELSE IF parts[1] \in seen_ids THEN Raised("DataFileError")
             ELSE IF ~wattage.ok \/ ~hours.ok THEN Raised("DataFileError")
             ELSE IF validate_device_values(wattage.val, hours.val)
                  THEN Raised("ValueError")
             ELSE load_loop(Tail(lines),
                            Append(ds, Device(parts[1],
                                              IF parts[2] = <<>> THEN Unknown
                                              ELSE parts[2],
                                              wattage.val, hours.val,
                                              IF parts[5] = <<>> THEN Unknown
                                              ELSE parts[5])),
                            seen_ids \cup {parts[1]})

load_devices(f) ==
    IF f.kind = "missing" THEN Raised("FileNotFoundError")
    ELSE IF f.kind = "unreadable" THEN Raised("OSError")
    ELSE load_loop(f.lines, <<>>, {})

---------------------------------------------------------------------------
(* energy_monitor/cli.py *)

\* one pass of the loop of prompt_float on the entry raw: the value returned, or
\* the message printed before the prompt is repeated
prompt_float(raw, min_value, allow_zero) ==
    LET val == ParseFloat(Strip(raw))
    IN  IF ~val.ok THEN [returned |-> FALSE, printed |-> "Invalid number. Try again"]
        ELSE IF allow_zero /\ Lt(val.val, min_value)
             THEN [returned |-> FALSE, printed |-> "Value must be >="]
        ELSE IF ~allow_zero /\ Le(val.val, min_value)
             THEN [returned |-> FALSE, printed |-> "Value must be >"]
        ELSE [returned |-> TRUE, val |-> val.val]

Yes == {<<"y">>, <<"y", "e", "s">>}
No == {<<"n">>, <<"n", "o">>}

\* one pass of the loop of prompt_yes_no on the entry raw
prompt_yes_no(raw) ==
    LET answer == Lower(Strip(raw))
    IN  IF answer \in Yes THEN [returned |-> TRUE, val |-> TRUE]
        ELSE IF answer \in No THEN [returned |-> TRUE, val |-> FALSE]
        ELSE [returned |-> FALSE, printed |-> "Please enter y or n."]

---------------------------------------------------------------------------
(* energy_monitor/reporting.py *)

PowerSaving == "Consider using Power Saving Mode or reducing on-time (>12h/day)."
OffPeak == "High wattage device: run during off-peak hours if available."
VerifyHours == "Usage is very low; verify hours/day is correct (data sanity check)."

\* efficiency_suggestions with rule 1 taken at 12 hours too
efficiency_suggestions_from_12h(d) ==
    (IF Ge(d.avg_hours_per_day, F12) THEN <<PowerSaving>> ELSE <<>>)
    \o (IF Ge(d.wattage, F1000) THEN <<OffPeak>> ELSE <<>>)
    \o (IF Lt(Zero, d.avg_hours_per_day) /\ Le(d.avg_hours_per_day, F025)
        THEN <<VerifyHours>> ELSE <<>>)

efficiency_suggestions(d) ==
    (IF Gt(d.avg_hours_per_day, F12) THEN <<PowerSaving>> ELSE <<>>)
    \o (IF Ge(d.wattage, F1000) THEN <<OffPeak>> ELSE <<>>)
    \o (IF Lt(Zero, d.avg_hours_per_day) /\ Le(d.avg_hours_per_day, F025)
        THEN <<VerifyHours>> ELSE <<>>)

\* the alert line of device d: the values its text is formatted from
Alert(d, mkwh, threshold) ==
    [device_id |-> d.device_id, name |-> d.name, room_location |-> d.room_location,
     mkwh |-> mkwh, threshold |-> threshold]

\* high_usage_alerts with a device at the threshold alerted too
RECURSIVE high_usage_alerts_at_threshold(_, _)
high_usage_alerts_at_threshold(ds, monthly_kwh_threshold) ==
    IF ds = <<>> THEN <<>>
    ELSE LET d == Head(ds)
             mkwh == monthly_kwh(d.wattage, d.avg_hours_per_day)
         IN  (IF Ge(mkwh, monthly_kwh_threshold)
              THEN <<Alert(d, mkwh, monthly_kwh_threshold)>> ELSE <<>>)
             \o high_usage_alerts_at_threshold(Tail(ds), monthly_kwh_threshold)

RECURSIVE high_usage_alerts(_, _)
high_usage_alerts(ds, monthly_kwh_threshold) ==
    IF ds = <<>> THEN <<>>
    ELSE LET d == Head(ds)
             mkwh == monthly_kwh(d.wattage, d.avg_hours_per_day)
         IN  (IF Gt(mkwh, monthly_kwh_threshold)
              THEN <<Alert(d, mkwh, monthly_kwh_threshold)>> ELSE <<>>)
             \o high_usage_alerts(Tail(ds), monthly_kwh_threshold)

RECURSIVE totals_loop(_, _, _)
totals_loop(ds, price, t) ==
    IF ds = <<>> THEN t
    ELSE LET d == Head(ds)
         IN  totals_loop(Tail(ds), price,
                 [daily |-> Add(t.daily,
                                daily_cost(d.wattage, d.avg_hours_per_day, price)),
                  weekly |-> Add(t.weekly,
                                 weekly_cost(d.wattage, d.avg_hours_per_day, price)),
                  monthly |-> Add(t.monthly,
                                  monthly_cost(d.wattage, d.avg_hours_per_day, price))])

totals(ds, price) ==
    totals_loop(ds, price, [daily |-> Zero, weekly |-> Zero, monthly |-> Zero])

\* a dict is the sequence of its items in insertion order
DictKeys(dict) == {dict[i].key : i \in 1..Len(dict)}
DictGet(dict, key) == dict[CHOOSE i \in 1..Len(dict) : dict[i].key = key].value

\* by_room[key] += v on a defaultdict(float)
DictAddTo(dict, key, v) ==
    IF key \in DictKeys(dict)
    THEN [i \in 1..Len(dict) |->
            IF dict[i].key = key
            THEN [key |-> key, value |-> Add(dict[i].value, v)]
            ELSE dict[i]]
    ELSE Append(dict, [key |-> key, value |-> Add(Zero, v)])

RECURSIVE room_loop(_, _, _)
room_loop(ds, price, by_room) ==
    IF ds = <<>> THEN by_room
    ELSE LET d == Head(ds)
         IN  room_loop(Tail(ds), price,
                 DictAddTo(by_room, d.room_location,
                           monthly_cost(d.wattage, d.avg_hours_per_day, price)))

room_monthly_totals(ds, price) == room_loop(ds, price, <<>>)

\* sum(dict.values()): left to right from 0
RECURSIVE SumValues(_, _)
SumValues(dict, acc) ==
    IF dict = <<>> THEN acc ELSE SumValues(Tail(dict), Add(acc, Head(dict).value))

\* sorted(items, key=lambda x: x[0].lower()): stable, ascending
RECURSIVE InsertByRoom(_, _)
InsertByRoom(sorted, item) ==
    IF sorted = <<>> THEN <<item>>
    ELSE IF StrLt(Lower(item.key), Lower(Head(sorted).key))
         THEN <<item>> \o sorted
         ELSE <<Head(sorted)>> \o InsertByRoom(Tail(sorted), item)

RECURSIVE SortedByRoom(_, _)
SortedByRoom(items, sorted) ==
    IF items = <<>> THEN sorted
    ELSE SortedByRoom(Tail(items), InsertByRoom(sorted, Head(items)))

\* the lines appended under "EFFICIENCY SUGGESTIONS:"
RECURSIVE suggestion_lines(_)
suggestion_lines(ds) ==
    IF ds = <<>> THEN <<>>
    ELSE LET d == Head(ds)
             sugg == efficiency_suggestions(d)
         IN  (IF sugg # <<>>
              THEN <<[device_id |-> d.device_id, sugg |-> sugg]>> ELSE <<>>)
             \o suggestion_lines(Tail(ds))

build_cost_report_text(ds, price, extra) ==
    LET t == totals(ds, price)
        extra_weekly == Mul(extra, F7)
        extra_monthly == Mul(extra, F30)
    IN  [price_per_kwh |-> price,
         table_rows |-> [i \in 1..Len(ds) |-> ds[i].device_id],
         totals |-> t,
         extra |-> [daily |-> extra, weekly |-> extra_weekly,
                    monthly |-> extra_monthly],
         grand |-> [daily |-> Add(t.daily, extra),
                    weekly |-> Add(t.weekly, extra_weekly),
                    monthly |-> Add(t.monthly, extra_monthly)],
         suggestions |-> suggestion_lines(ds)]

build_monthly_forecast_text(ds, price, extra) ==
    LET room_totals == room_monthly_totals(ds, price)
        extra_monthly == Mul(extra, F30)
        device_monthly_total == SumValues(room_totals, Zero)
    IN  [price_per_kwh |-> price,
         rows |-> SortedByRoom(room_totals, <<>>),
         device_monthly_total |-> device_monthly_total,
         extra_monthly |-> extra_monthly,
         grand_total |-> Add(device_monthly_total, extra_monthly)]

\* preds: one (mcost, d, mkwh) per device, in input order
preds_of(ds, price) ==
    [i \in 1..Len(ds) |->
        LET mkwh == monthly_kwh(ds[i].wattage, ds[i].avg_hours_per_day)
        IN  [mcost |-> Mul(mkwh, price), d |-> ds[i], mkwh |-> mkwh]]

\* the insertion of an unstable sort: a later device goes before its equals
RECURSIVE InsertByCostDescUnstable(_, _)
InsertByCostDescUnstable(sorted, p) ==
    IF sorted = <<>> THEN <<p>>
    ELSE IF Le(Head(sorted).mcost, p.mcost)
         THEN <<p>> \o sorted
         ELSE <<Head(sorted)>> \o InsertByCostDescUnstable(Tail(sorted), p)

\* preds.sort(reverse=True, key=lambda x: x[0]): stable, descending
RECURSIVE InsertByCostDesc(_, _)
InsertByCostDesc(sorted, p) ==
    IF sorted = <<>> THEN <<p>>
    ELSE IF Lt(Head(sorted).mcost, p.mcost)
         THEN <<p>> \o sorted
         ELSE <<Head(sorted)>> \o InsertByCostDesc(Tail(sorted), p)

RECURSIVE SortedByCostDesc(_, _)
SortedByCostDesc(preds, sorted) ==
    IF preds = <<>> THEN sorted
    ELSE SortedByCostDesc(Tail(preds), InsertByCostDesc(sorted, Head(preds)))

\* preds[:3]
Top3(preds) == SubSeq(preds, 1, IF Len(preds) < 3 THEN Len(preds) ELSE 3)

build_predictions_text(ds, price) ==
    [top3 |-> Top3(SortedByCostDesc(preds_of(ds, price), <<>>))]

---------------------------------------------------------------------------
(* energy_monitor/reporting.py: format_table *)

Max(a, b) == IF a > b THEN a ELSE b

\* c * n
Repeat(c, n) == [i \in 1..n |-> c]

\* a cell left as it is, not padded to its column
LjustUnpadded(str, width) == str

\* str.ljust(width)
Ljust(str, width) == str \o Repeat(" ", width - Len(str))

\* sep.join(parts)
RECURSIVE Join(_, _)
Join(sep, parts) ==
    IF parts = <<>> THEN <<>>
    ELSE IF Len(parts) = 1 THEN Head(parts)
    ELSE Head(parts) \o sep \o Join(sep, Tail(parts))

\* the loop of reporting.py:73-75
RECURSIVE widths_loop(_, _)
widths_loop(rs, widths) ==
    IF rs = <<>> THEN widths
    ELSE widths_loop(Tail(rs),
                     [i \in 1..Len(widths) |-> Max(widths[i], Len(Head(rs)[i]))])

fmt_row(r, widths, hs) ==
    Join(<<" ", "|", " ">>, [i \in 1..Len(hs) |-> Ljust(r[i], widths[i])])

format_table(hs, rs) ==
    LET widths == widths_loop(rs, [i \in 1..Len(hs) |-> Len(hs[i])])
        sep == Join(<<"-", "+", "-">>, [i \in 1..Len(widths) |-> Repeat("-", widths[i])])
        out == <<fmt_row(hs, widths, hs), sep>>
               \o [j \in 1..Len(rs) |-> fmt_row(rs[j], widths, hs)]
    IN  Join(<<"\n">>, out)

---------------------------------------------------------------------------
(* main.py: the alerts of a run *)

\* the alerts of a main that calls high_usage_alerts whatever the threshold
main_alerts_unguarded(ds, threshold) == high_usage_alerts(ds, threshold)

\* main.py:66-70: alerts only if threshold > 0
main_alerts(ds, threshold) ==
    IF Gt(threshold, Zero) THEN high_usage_alerts(ds, threshold) ELSE <<>>

---------------------------------------------------------------------------
(* The parts of the state a specification leaves alone *)

NoCall == [fn |-> "none"]

\* the state of main before it runs, and of format_table before it is applied
MainIdle ==
    /\ pc = "idle"
    /\ file = NoFile
    /\ price_per_kwh = None
    /\ extra_daily_cost = None
    /\ threshold_kwh = None
    /\ cost_report = None
    /\ forecast_report = None
    /\ predictions_report = None
    /\ alerts = <<>>
    /\ alert_i = 0
    /\ stdout = <<>>
    /\ out_files = <<>>
    /\ retries = 0

TableIdle ==
    /\ headers = <<>>
    /\ rows = <<>>
    /\ table = None

---------------------------------------------------------------------------
(* main.py: a run of main *)

\* the lines an appliance file is made of
Lines ==
    { <<"D", "1", "|", "L", "a", "m", "p", "|", "6", "0", "|", "5", "|", "H", "a", "l", "l">>,  \* "D1|Lamp|60|5|Hall"
      <<" ", "D", "2", " ", "|", " ", "H", "e", "a", "t", "e", "r", " ", "|", " ", "1", "5", "0", "0", " ", "|", " ", "1", "3", " ", "|", " ">>,  \* " D2 | Heater | 1500 | 13 | "
      <<"D", "1", "|", "|", "1", "0", "0", "|", "0", "|", "k", "i", "t", "c", "h", "e", "n">>,  \* "D1||100|0|kitchen"
      <<"#", " ", "n", "o", "t", "e">>,  \* "# note"
      <<" ", " ">>,  \* "  "
      <<"D", "3", "|", "F", "a", "n", "|", "n", "a", "n", "|", "2", "4", "|", "H", "a", "l", "l">>,  \* "D3|Fan|nan|24|Hall"
      <<"D", "4", "|", "T", "v", "|", "1", "0", "0", "|", "2", "4", ".", "5", "|", "H", "a", "l", "l">>,  \* "D4|Tv|100|24.5|Hall"
      <<"D", "4", "|", "T", "v", "|", "0", "|", "1", "|", "H", "a", "l", "l">>,  \* "D4|Tv|0|1|Hall"
      <<"D", "4", "|", "T", "v", "|", "a", "b", "c", "|", "1", "|", "H", "a", "l", "l">>,  \* "D4|Tv|abc|1|Hall"
      <<"|", "T", "v", "|", "1", "0", "0", "|", "1", "|", "H", "a", "l", "l">>,  \* "|Tv|100|1|Hall"
      <<"D", "4", "|", "T", "v", "|", "1", "0", "0", "|", "1">>,  \* "D4|Tv|100|1"
      <<"D", "4", "|", "T", "v", "|", "1", "0", "0", "|", "-", "1", "|", "H", "a", "l", "l">>  \* "D4|Tv|100|-1|Hall"
    }

Files ==
    {NoFile, Unreadable}
    \cup UNION { {FileOf(lines) : lines \in [1..n -> Lines]} : n \in 0..MaxLines }

\* what the user types at a number prompt, and at a y/n prompt
Entries ==
    { <<"0", ".", "1">>,  \* "0.1"
      <<"0">>,  \* "0"
      <<"-", "1">>,  \* "-1"
      <<"a", "b", "c">>,  \* "abc"
      <<"n", "a", "n">>,  \* "nan"
      <<"3", "0">>  \* "30"
    }

Answers ==
    { <<"Y">>,  \* "Y"
      <<"n", "o">>,  \* "no"
      <<"x">>  \* "x"
    }

Emit(text) == stdout' = Append(stdout, text)

\* main.py:38, printed when load_devices has returned
Loaded == "Loaded devices."

Init ==
    /\ pc = "load"
    /\ file \in Files
    /\ devices = <<>>
    /\ price_per_kwh = None
    /\ extra_daily_cost = None
    /\ threshold_kwh = None
    /\ cost_report = None
    /\ forecast_report = None
    /\ predictions_report = None
    /\ alerts = <<>>
    /\ alert_i = 0
    /\ stdout = <<>>
    /\ out_files = <<>>
    /\ retries = 0
    /\ call = NoCall
    /\ TableIdle

\* main.py:17-38
LoadDevices ==
    /\ pc = "load"
    /\ LET res == load_devices(file)
       IN  IF res.status = "ok"
           THEN /\ devices' = res.devices
                /\ Emit(Loaded)
                /\ pc' = "price"
           ELSE /\ devices' = devices
                /\ Emit(IF res.status = "FileNotFoundError"
                         THEN "ERROR: Appliance file not found"
                         ELSE IF res.status = "DataFileError"
                         THEN "ERROR in appliances.txt"
                         ELSE IF res.status = "ValueError"
                         THEN "ERROR: Invalid device values"
                         ELSE "Unexpected error while loading devices")
                /\ pc' = "done"
    /\ UNCHANGED <<file, price_per_kwh, extra_daily_cost, threshold_kwh, cost_report,
                   forecast_report, predictions_report, alerts, alert_i, out_files,
                   retries, call, tableVars>>

\* a rejected entry: the message, and the prompt again
Reprompt(message) ==
    /\ retries < MaxRetries
    /\ retries' = retries + 1
    /\ Emit(message)
    /\ pc' = pc

\* main.py:40-45
PromptPrice ==
    /\ pc = "price"
    /\ \E raw \in Entries :
          LET r == prompt_float(raw, Zero, FALSE)
          IN  IF ~r.returned
              THEN Reprompt(r.printed) /\ price_per_kwh' = price_per_kwh
              ELSE /\ price_per_kwh' = Some(r.val)
                   /\ retries' = retries
                   /\ IF validate_price_per_kwh(r.val)
                      THEN Emit("ERROR: Price per kWh must be greater than 0.")
                           /\ pc' = "done"
                      ELSE stdout' = stdout /\ pc' = "extra"
    /\ UNCHANGED <<file, devices, extra_daily_cost, threshold_kwh, cost_report,
                   forecast_report, predictions_report, alerts, alert_i, out_files,
                   call, tableVars>>

\* main.py:47-51
PromptExtra ==
    /\ pc = "extra"
    /\ \E raw \in Entries :
          LET r == prompt_float(raw, Zero, TRUE)
          IN  IF ~r.returned
              THEN Reprompt(r.printed) /\ extra_daily_cost' = extra_daily_cost
              ELSE /\ extra_daily_cost' = Some(r.val)
                   /\ pc' = "threshold"
                   /\ UNCHANGED <<retries, stdout>>
    /\ UNCHANGED <<file, devices, price_per_kwh, threshold_kwh, cost_report,
                   forecast_report, predictions_report, alerts, alert_i, out_files,
                   call, tableVars>>

\* main.py:54-58
PromptThreshold ==
    /\ pc = "threshold"
    /\ \E raw \in Entries :
          LET r == prompt_float(raw, Zero, TRUE)
          IN  IF ~r.returned
              THEN Reprompt(r.printed) /\ threshold_kwh' = threshold_kwh
              ELSE /\ threshold_kwh' = Some(r.val)
                   /\ pc' = "build"
                   /\ UNCHANGED <<retries, stdout>>
    /\ UNCHANGED <<file, devices, price_per_kwh, extra_daily_cost, cost_report,
                   forecast_report, predictions_report, alerts, alert_i, out_files,
                   call, tableVars>>

\* the orders list.sort may leave preds in: the stable descending order, or, when
\* a key is nan (every comparison with it is False), any order
Permutations(seq) ==
    { [i \in 1..Len(seq) |-> seq[f[i]]] :
        f \in {g \in [1..Len(seq) -> 1..Len(seq)] :
                  \A i, j \in 1..Len(seq) : i # j => g[i] # g[j]} }

PredictionsTexts(ds, price) ==
    IF \E i \in 1..Len(ds) : IsNaN(preds_of(ds, price)[i].mcost)
    THEN {[top3 |-> Top3(sorted)] : sorted \in Permutations(preds_of(ds, price))}
    ELSE {build_predictions_text(ds, price)}

\* main.py:60-70; ensure_output_dir may raise OSError, which main does not catch
Build ==
    /\ pc = "build"
    /\ \/ /\ pc' = "crashed"
          /\ UNCHANGED <<cost_report, forecast_report, predictions_report, alerts>>
       \/ /\ cost_report' =
                Some(build_cost_report_text(devices, price_per_kwh[1],
                                            extra_daily_cost[1]))
          /\ forecast_report' =
                Some(build_monthly_forecast_text(devices, price_per_kwh[1],
                                                 extra_daily_cost[1]))
          /\ \E text \in PredictionsTexts(devices, price_per_kwh[1]) :
                predictions_report' = Some(text)
          /\ alerts' = main_alerts(devices, threshold_kwh[1])
          /\ pc' = "print"
    /\ UNCHANGED <<file, devices, price_per_kwh, extra_daily_cost, threshold_kwh,
                   alert_i, stdout, out_files, retries, call, tableVars>>

\* main.py:73-75
PrintCostReport ==
    /\ pc = "print"
    /\ IF alerts # <<>>
       THEN /\ stdout' = stdout \o <<"cost_report", "ALERTS:", "alert">>
            /\ alert_i' = 1
            /\ pc' = "alerts"
       ELSE /\ Emit("cost_report")
            /\ alert_i' = alert_i
            /\ pc' = "print_rest"
    /\ UNCHANGED <<file, devices, price_per_kwh, extra_daily_cost, threshold_kwh,
                   cost_report, forecast_report, predictions_report, alerts,
                   out_files, retries, call, tableVars>>

\* main.py:76-80: the answer to the question asked after alert alert_i
AnswerAlert ==
    /\ pc = "alerts"
    /\ \E raw \in Answers :
          LET r == prompt_yes_no(raw)
              last == alert_i = Len(alerts)
              shown == IF r.returned /\ r.val THEN <<"REDUCE USAGE">> ELSE <<>>
          IN  IF ~r.returned
              THEN Reprompt(r.printed) /\ alert_i' = alert_i
              ELSE /\ stdout' = stdout \o shown \o (IF last THEN <<>> ELSE <<"alert">>)
                   /\ alert_i' = alert_i + 1
                   /\ pc' = IF last THEN "print_rest" ELSE "alerts"
                   /\ retries' = retries
    /\ UNCHANGED <<file, devices, price_per_kwh, extra_daily_cost, threshold_kwh,
                   cost_report, forecast_report, predictions_report, alerts,
                   out_files, call, tableVars>>

\* main.py:81-83
PrintForecastAndPredictions ==
    /\ pc = "print_rest"
    /\ stdout' = stdout \o <<"forecast_report", "predictions_report">>
    /\ pc' = "save"
    /\ UNCHANGED <<file, devices, price_per_kwh, extra_daily_cost, threshold_kwh,
                   cost_report, forecast_report, predictions_report, alerts, alert_i,
                   out_files, retries, call, tableVars>>

\* the three files of main.py:87-89, in the order they are written
OutputFiles ==
    << [name |-> "costs_report.txt", report |-> cost_report[1], alerts |-> alerts],
       [name |-> "monthly_forecast.txt", report |-> forecast_report[1],
        alerts |-> <<>>],
       [name |-> "predictions.txt", report |-> predictions_report[1],
        alerts |-> <<>>] >>

\* main.py:86-101: write_text may raise PermissionError or another OSError at any
\* of the three files
Save ==
    /\ pc = "save"
    /\ \/ /\ out_files' = OutputFiles
          /\ Emit("Saved reports to:")
       \/ \E written \in 0..2 :
             /\ out_files' = SubSeq(OutputFiles, 1, written)
             /\ \E message \in {"ERROR: Cannot write output files",
                                 "ERROR: File write failed"} : Emit(message)
    /\ pc' = "done"
    /\ UNCHANGED <<file, devices, price_per_kwh, extra_daily_cost, threshold_kwh,
                   cost_report, forecast_report, predictions_report, alerts, alert_i,
                   retries, call, tableVars>>

Next ==
    \/ LoadDevices
    \/ PromptPrice
    \/ PromptExtra
    \/ PromptThreshold
    \/ Build
    \/ PrintCostReport
    \/ AnswerAlert
    \/ PrintForecastAndPredictions
    \/ Save

Spec == Init /\ [][Next]_vars

---------------------------------------------------------------------------
(* The reporting functions applied to validated device lists *)

\* the device id of the i-th device of a list: "D1", "D2", ...
DeviceId(i) == <<"D", Chars[Ord("0") + i]>>

\* (wattage, avg_hours_per_day, room_location) of the devices the lists are made of:
\* finite, wattage > 0 and 0 <= hours <= 24
DevicePool ==
    { <<Dec(1500, 0), Dec(13, 0), Kitchen>>,
      <<Dec(1000, 0), Dec(1, 0), kitchen>>,
      <<Dec(60, 0), Dec(25, 2), Hall>>,
      <<Dec(100, 0), Dec(12, 0), kitchen>>,
      <<Dec(999, 0), Zero, Hall>> }

DeviceLists ==
    UNION { { [i \in 1..n |-> Device(DeviceId(i), Unknown, f[i][1], f[i][2], f[i][3])]
              : f \in [1..n -> DevicePool] }
            : n \in 0..MaxDevices }

Prices == {Dec(1, 1), Dec(2, 1)}
ExtraCosts == {Zero, Dec(5, 1)}
Thresholds == {Zero, Dec(30, 0)}

InitCalc ==
    /\ devices \in DeviceLists
    /\ call = NoCall
    /\ MainIdle
    /\ TableIdle

CallEfficiencySuggestions ==
    /\ call = NoCall
    /\ \E i \in 1..Len(devices) :
          call' = [fn |-> "efficiency_suggestions", device |-> devices[i],
                   ret |-> efficiency_suggestions(devices[i])]
    /\ UNCHANGED <<mainVars, devices, tableVars>>

CallHighUsageAlerts ==
    /\ call = NoCall
    /\ \E threshold \in Thresholds :
          call' = [fn |-> "high_usage_alerts", threshold |-> threshold,
                   ret |-> high_usage_alerts(devices, threshold)]
    /\ UNCHANGED <<mainVars, devices, tableVars>>

CallMainAlerts ==
    /\ call = NoCall
    /\ \E threshold \in Thresholds :
          call' = [fn |-> "main_alerts", threshold |-> threshold,
                   ret |-> main_alerts(devices, threshold)]
    /\ UNCHANGED <<mainVars, devices, tableVars>>

CallTotals ==
    /\ call = NoCall
    /\ \E price \in Prices :
          call' = [fn |-> "totals", price |-> price, ret |-> totals(devices, price)]
    /\ UNCHANGED <<mainVars, devices, tableVars>>

CallRoomMonthlyTotals ==
    /\ call = NoCall
    /\ \E price \in Prices :
          call' = [fn |-> "room_monthly_totals", price |-> price,
                   ret |-> room_monthly_totals(devices, price)]
    /\ UNCHANGED <<mainVars, devices, tableVars>>

CallBuildCostReportText ==
    /\ call = NoCall
    /\ \E price \in Prices, extra \in ExtraCosts :
          call' = [fn |-> "build_cost_report_text", price |-> price, extra |-> extra,
                   ret |-> build_cost_report_text(devices, price, extra)]
    /\ UNCHANGED <<mainVars, devices, tableVars>>

CallBuildMonthlyForecastText ==
    /\ call = NoCall
    /\ \E price \in Prices, extra \in ExtraCosts :
          call' = [fn |-> "build_monthly_forecast_text", price |-> price,
                   extra |-> extra,
                   ret |-> build_monthly_forecast_text(devices, price, extra)]
    /\ UNCHANGED <<mainVars, devices, tableVars>>

CallBuildPredictionsText ==
    /\ call = NoCall
    /\ \E price \in Prices :
          call' = [fn |-> "build_predictions_text", price |-> price,
                   ret |-> build_predictions_text(devices, price)]
    /\ UNCHANGED <<mainVars, devices, tableVars>>

NextCalc ==
    \/ CallEfficiencySuggestions
    \/ CallHighUsageAlerts
    \/ CallMainAlerts
    \/ CallTotals
    \/ CallRoomMonthlyTotals
    \/ CallBuildCostReportText
    \/ CallBuildMonthlyForecastText
    \/ CallBuildPredictionsText

SpecCalc == InitCalc /\ [][NextCalc]_vars

---------------------------------------------------------------------------
(* Properties of the reporting functions (under SpecCalc) *)

Range(seq) == {seq[i] : i \in 1..Len(seq)}
Min(a, b) == IF a < b THEN a ELSE b

\* the j-th smallest element of a set of indices
Nth(sel, j) == CHOOSE i \in sel : Cardinality({k \in sel : k < i}) = j - 1

\* ids is the sequence of the device ids of the devices at the indices sel, ascending
IsSelection(ids, sel) ==
    /\ Len(ids) = Cardinality(sel)
    /\ \A j \in 1..Len(ids) : ids[j] = devices[Nth(sel, j)].device_id

\* wattage x hours/day / 1000 x 30, and that x price
MonthlyKwhOf(d) == Mul(Div(Mul(d.wattage, d.avg_hours_per_day), F1000), F30)
ProjectedCostOf(d, price) == Mul(MonthlyKwhOf(d), price)

\* wattage x hours/day / 1000 x price
DailyCostOf(d, price) == Mul(Div(Mul(d.wattage, d.avg_hours_per_day), F1000), price)

\* C1: the ranked list of build_predictions_text holds min(3, number of devices)
\* devices, in descending order of projected monthly cost (monthly kWh x price),
\* equal costs in input order; every device left out costs no more than the last
\* listed one and, on a tie with a listed device, comes later in the input.
C1_TopByProjectedCost ==
    call.fn = "build_predictions_text" =>
        LET top == call.ret.top3
            n == Len(devices)
            cost(i) == ProjectedCostOf(devices[i], call.price)
            pos(j) == CHOOSE i \in 1..n : devices[i] = top[j].d
            listed == {i \in 1..n : \E j \in 1..Len(top) : top[j].d = devices[i]}
        IN  /\ Len(top) = Min(3, n)
            /\ \A j \in 1..Len(top) :
                  /\ top[j].d \in Range(devices)
                  /\ top[j].mcost = cost(pos(j))
            /\ \A j, k \in 1..Len(top) :
                  j < k => /\ pos(j) # pos(k)
                           /\ Ge(cost(pos(j)), cost(pos(k)))
                           /\ cost(pos(j)) = cost(pos(k)) => pos(j) < pos(k)
            /\ \A i \in (1..n) \ listed :
                  /\ Le(cost(i), cost(pos(Len(top))))
                  /\ \A j \in 1..Len(top) : cost(pos(j)) = cost(i) => pos(j) < i

\* four devices, the ranking differs from the input order, and a device is left out
\* on a tie with the last listed one
C1_Witness ==
    /\ call.fn = "build_predictions_text"
    /\ Len(devices) = 4
    /\ Len(call.ret.top3) = 3
    /\ call.ret.top3[1].d # devices[1]
    /\ Lt(call.ret.top3[3].mcost, call.ret.top3[1].mcost)
    /\ \E i \in 1..4 :
          /\ \A j \in 1..3 : call.ret.top3[j].d # devices[i]
          /\ ProjectedCostOf(devices[i], call.price) = call.ret.top3[3].mcost

\* C2: high_usage_alerts(devices, T) returns one alert per device whose monthly kWh
\* (wattage x hours/day / 1000 x 30) is strictly greater than T, none for a device
\* at or below T, in device input order.
C2_AlertsStrictlyAbove ==
    call.fn = "high_usage_alerts" =>
        IsSelection([j \in 1..Len(call.ret) |-> call.ret[j].device_id],
                    {i \in 1..Len(devices) :
                        Gt(MonthlyKwhOf(devices[i]), call.threshold)})

\* a device exactly at the threshold gets no alert while one above it does
C2_Witness ==
    /\ call.fn = "high_usage_alerts"
    /\ Gt(call.threshold, Zero)
    /\ \E i \in 1..Len(devices) : MonthlyKwhOf(devices[i]) = call.threshold
    /\ \E i \in 1..Len(devices) : Lt(MonthlyKwhOf(devices[i]), call.threshold)
    /\ call.ret # <<>>
    /\ Len(call.ret) < Len(devices)

\* C3 as stated: high_usage_alerts called with threshold 0 returns an empty
\* sequence for every device list.
C3_ZeroThresholdIsEmpty ==
    (call.fn = "high_usage_alerts" /\ call.threshold = Zero) => call.ret = <<>>

\* C3 as amended: with threshold 0 high_usage_alerts returns one alert for every
\* device whose monthly kWh is greater than 0 (it takes the threshold literally);
\* the alerts main computes for threshold 0 are empty, because main calls
\* high_usage_alerts only when the threshold is greater than 0.
C3_ZeroThresholdDisabledByMain ==
    /\ (call.fn = "high_usage_alerts" /\ call.threshold = Zero) =>
          IsSelection([j \in 1..Len(call.ret) |-> call.ret[j].device_id],
                      {i \in 1..Len(devices) : Gt(MonthlyKwhOf(devices[i]), Zero)})
    /\ (call.fn = "main_alerts" /\ call.threshold = Zero) => call.ret = <<>>
    /\ (call.fn = "main_alerts" /\ Gt(call.threshold, Zero)) =>
          call.ret = high_usage_alerts(devices, call.threshold)

\* main's alerts for threshold 0 over devices that are in use
C3_Witness ==
    /\ call.fn = "main_alerts"
    /\ call.threshold = Zero
    /\ call.ret = <<>>
    /\ \E i \in 1..Len(devices) : Gt(MonthlyKwhOf(devices[i]), Zero)

\* the float sum, in input order from 0.0, of f over the devices at the indices sel
RECURSIVE SumOver(_, _, _, _)
SumOver(i, sel, price, kind) ==
    IF i = 0 THEN Zero
    ELSE IF i \notin sel THEN SumOver(i - 1, sel, price, kind)
    ELSE LET daily == DailyCostOf(devices[i], price)
             x == IF kind = "daily" THEN daily
                  ELSE IF kind = "weekly" THEN Mul(daily, F7)
                  ELSE Mul(daily, F30)
         IN  Add(SumOver(i - 1, sel, price, kind), x)

AllDevices == 1..Len(devices)

\* the rooms of the device list, and the devices of a room
RoomsOf == {devices[i].room_location : i \in AllDevices}
InRoom(room) == {i \in AllDevices : devices[i].room_location = room}

\* the grouping of room_monthly_totals: one key per room_location of the list
\* (exact string), its value the sum of monthly_cost over the devices of that room
C4_Grouping ==
    call.fn = "room_monthly_totals" =>
        /\ DictKeys(call.ret) = RoomsOf
        /\ Len(call.ret) = Cardinality(RoomsOf)
        /\ \A j \in 1..Len(call.ret) :
              call.ret[j].value =
                  SumOver(Len(devices), InRoom(call.ret[j].key), call.price, "monthly")
        /\ devices = <<>> => call.ret = <<>>

\* C4: room_monthly_totals maps each room_location of the list to the sum of
\* monthly_cost over exactly the devices of that room, has no other keys, and its
\* values sum to totals(devices, price)['monthly']; empty list, empty mapping.
C4_RoomTotalsSumToFleetMonthly ==
    /\ C4_Grouping
    /\ call.fn = "room_monthly_totals" =>
          SumValues(call.ret, Zero) = totals(devices, call.price).monthly

\* C5 as stated: totals returns daily = the sum over the devices of wattage x
\* hours/day / 1000 x price, weekly = the sum of 7 x each daily cost, monthly = the
\* sum of 30 x each daily cost, each device counted once; hence weekly = 7 x daily
\* and monthly = 30 x daily; all three are 0 for an empty list.
C5_TotalsAsStated ==
    call.fn = "totals" =>
        /\ call.ret.daily = SumOver(Len(devices), AllDevices, call.price, "daily")
        /\ call.ret.weekly = SumOver(Len(devices), AllDevices, call.price, "weekly")
        /\ call.ret.monthly = SumOver(Len(devices), AllDevices, call.price, "monthly")
        /\ call.ret.weekly = Mul(F7, call.ret.daily)
        /\ call.ret.monthly = Mul(F30, call.ret.daily)
        /\ devices = <<>> =>
              call.ret = [daily |-> Zero, weekly |-> Zero, monthly |-> Zero]

\* |a - b| is at most k units in the last place of the larger (a, b finite, >= 0)
WithinUlps(a, b, k) ==
    \/ a = b
    \/ /\ a.m > 0
       /\ b.m > 0
       /\ LET hi == IF Lt(a, b) THEN b ELSE a
              lo == IF Lt(a, b) THEN a ELSE b
              diff == hi.e - lo.e
          IN  /\ diff <= 1
              /\ hi.m * Pow2(diff) - lo.m <= k * Pow2(diff)

\* C5 as amended: the three sums as stated, all 0 for an empty list; weekly =
\* 7 x daily and monthly = 30 x daily hold exactly for a list of at most one device
\* and otherwise up to rounding: within 2n + 1 units in the last place, n devices.
C5_Totals ==
    call.fn = "totals" =>
        /\ call.ret.daily = SumOver(Len(devices), AllDevices, call.price, "daily")
        /\ call.ret.weekly = SumOver(Len(devices), AllDevices, call.price, "weekly")
        /\ call.ret.monthly = SumOver(Len(devices), AllDevices, call.price, "monthly")
        /\ Len(devices) <= 1 =>
              /\ call.ret.weekly = Mul(F7, call.ret.daily)
              /\ call.ret.monthly = Mul(F30, call.ret.daily)
        /\ WithinUlps(call.ret.weekly, Mul(F7, call.ret.daily), 2 * Len(devices) + 1)
        /\ WithinUlps(call.ret.monthly, Mul(F30, call.ret.daily), 2 * Len(devices) + 1)
        /\ devices = <<>> =>
              call.ret = [daily |-> Zero, weekly |-> Zero, monthly |-> Zero]

\* totals of several devices in use, where weekly is not the float 7 x daily
C5_Witness ==
    /\ call.fn = "totals"
    /\ Len(devices) >= 2
    /\ Gt(call.ret.daily, Zero)
    /\ call.ret.weekly # Mul(F7, call.ret.daily)

\* C6: the grand totals of build_cost_report_text are the fleet totals plus e, 7e
\* and 30e; the forecast grand total of build_monthly_forecast_text is the devices'
\* monthly total + 30e and equals the cost report's monthly grand total.
C6_GrandTotalsAgree ==
    /\ call.fn = "build_cost_report_text" =>
          LET t == totals(devices, call.price)
          IN  /\ call.ret.grand.daily = Add(t.daily, call.extra)
              /\ call.ret.grand.weekly = Add(t.weekly, Mul(call.extra, F7))
              /\ call.ret.grand.monthly = Add(t.monthly, Mul(call.extra, F30))
    /\ call.fn = "build_monthly_forecast_text" =>
          /\ call.ret.grand_total =
                Add(totals(devices, call.price).monthly, Mul(call.extra, F30))
          /\ call.ret.grand_total =
                build_cost_report_text(devices, call.price, call.extra).grand.monthly

\* the part of C6 that holds: the cost report's grand totals, and the forecast
\* grand total as the sum of the room totals plus 30e
C6_GrandTotalsEach ==
    /\ call.fn = "build_cost_report_text" =>
          LET t == totals(devices, call.price)
          IN  /\ call.ret.grand.daily = Add(t.daily, call.extra)
              /\ call.ret.grand.weekly = Add(t.weekly, Mul(call.extra, F7))
              /\ call.ret.grand.monthly = Add(t.monthly, Mul(call.extra, F30))
    /\ call.fn = "build_monthly_forecast_text" =>
          call.ret.grand_total =
              Add(SumValues(room_monthly_totals(devices, call.price), Zero),
                  Mul(call.extra, F30))

\* the three rules of efficiency_suggestions
Rule1(d) == Gt(d.avg_hours_per_day, Dec(12, 0))
Rule2(d) == Ge(d.wattage, Dec(1000, 0))
Rule3(d) == Lt(Zero, d.avg_hours_per_day) /\ Le(d.avg_hours_per_day, Dec(25, 2))
RuleRank(text) == IF text = PowerSaving THEN 1 ELSE IF text = OffPeak THEN 2 ELSE 3

SuggestionsByRule(d, sugg) ==
    /\ Range(sugg) \subseteq {PowerSaving, OffPeak, VerifyHours}
    /\ PowerSaving \in Range(sugg) <=> Rule1(d)
    /\ OffPeak \in Range(sugg) <=> Rule2(d)
    /\ VerifyHours \in Range(sugg) <=> Rule3(d)
    /\ \A j, k \in 1..Len(sugg) : j < k => RuleRank(sugg[j]) < RuleRank(sugg[k])

\* C9: efficiency_suggestions holds the power-saving suggestion iff hours > 12,
\* the off-peak suggestion iff wattage >= 1000, the verify suggestion iff
\* 0 < hours <= 0.25, in that order and nothing else; 1500 W at 13 h/day gets the
\* first two; build_cost_report_text lists under EFFICIENCY SUGGESTIONS exactly
\* the devices with a non-empty list, in input order.
C9_EfficiencySuggestions ==
    /\ call.fn = "efficiency_suggestions" =>
          /\ SuggestionsByRule(call.device, call.ret)
          /\ (call.device.wattage = Dec(1500, 0)
              /\ call.device.avg_hours_per_day = Dec(13, 0)) =>
                 call.ret = <<PowerSaving, OffPeak>>
    /\ call.fn = "build_cost_report_text" =>
          /\ IsSelection([j \in 1..Len(call.ret.suggestions) |->
                             call.ret.suggestions[j].device_id],
                         {i \in AllDevices :
                             Rule1(devices[i]) \/ Rule2(devices[i]) \/ Rule3(devices[i])})
          /\ \A j \in 1..Len(call.ret.suggestions) :
                \E i \in AllDevices :
                   /\ devices[i].device_id = call.ret.suggestions[j].device_id
                   /\ SuggestionsByRule(devices[i], call.ret.suggestions[j].sugg)

\* a cost report that lists some devices and skips others, among the listed a
\* 1500 W, 13 h/day device with rules 1 and 2, and one with rule 3 alone
C9_Witness ==
    /\ call.fn = "build_cost_report_text"
    /\ call.ret.suggestions # <<>>
    /\ Len(call.ret.suggestions) < Len(devices)
    /\ \E j \in 1..Len(call.ret.suggestions) :
          call.ret.suggestions[j].sugg = <<PowerSaving, OffPeak>>
    /\ \E j \in 1..Len(call.ret.suggestions) :
          call.ret.suggestions[j].sugg = <<VerifyHours>>
    /\ \E i \in AllDevices : devices[i].avg_hours_per_day = Dec(12, 0)

---------------------------------------------------------------------------
(* Claims about a run of main *)

\* load_devices has returned its list to main (main.py:38)
LoadReturned == Loaded \in Range(stdout)

\* a line that is neither blank nor a comment (storage.py:21-22)
IsDataLine(l) == Strip(l) # <<>> /\ ~StartsWith(Strip(l), "#")
DataLines == SelectSeq(file.lines, IsDataLine)
FieldsOf(l) == [i \in 1..Len(Split(Strip(l), "|")) |-> Strip(Split(Strip(l), "|")[i])]

\* a data line the claim says is refused
IsRefusedLine(l) ==
    LET parts == FieldsOf(l)
    IN  \/ Len(parts) # 5
        \/ parts[1] = <<>>
        \/ ~ParseFloat(parts[3]).ok
        \/ ~ParseFloat(parts[4]).ok
        \/ Le(ParseFloat(parts[3]).val, Zero)
        \/ Lt(ParseFloat(parts[4]).val, Zero)
        \/ Gt(ParseFloat(parts[4]).val, F24)

\* C7, as stated: the list load_devices returns is non-empty, in the order of the
\* file's data lines, with non-empty pairwise distinct ids, wattage > 0 and
\* 0 <= hours <= 24; a file with a refused data line, a repeated id or no data
\* line gives main no device at all.
C7_LoadedDevicesAreValid ==
    /\ LoadReturned =>
          /\ devices # <<>>
          /\ Len(devices) = Len(DataLines)
          /\ \A i \in 1..Len(devices) :
                /\ devices[i].device_id = FieldsOf(DataLines[i])[1]
                /\ devices[i].device_id # <<>>
                /\ \A j \in 1..Len(devices) :
                      i # j => devices[i].device_id # devices[j].device_id
                /\ Gt(devices[i].wattage, Zero)
                /\ Ge(devices[i].avg_hours_per_day, Zero)
                /\ Le(devices[i].avg_hours_per_day, F24)
    /\ ( /\ pc # "load"
         /\ file.kind = "file"
         /\ \/ DataLines = <<>>
            \/ \E i \in 1..Len(DataLines) : IsRefusedLine(DataLines[i])
            \/ \E i, j \in 1..Len(DataLines) :
                  i # j /\ FieldsOf(DataLines[i])[1] = FieldsOf(DataLines[j])[1] )
       => ~LoadReturned /\ devices = <<>>

\* a report has been built, printed or written
ReportEmitted ==
    \/ cost_report # None
    \/ forecast_report # None
    \/ predictions_report # None
    \/ \E name \in {"cost_report", "forecast_report", "predictions_report"} :
          name \in Range(stdout)
    \/ out_files # <<>>

\* C8, as stated: a report is built, printed or written only after load_devices
\* returned and with price > 0, extra daily cost >= 0 and threshold >= 0; every
\* value prompt_float returned meets its bound.
C8_ReportsOnlyForValidInputs ==
    /\ ReportEmitted =>
          /\ LoadReturned
          /\ price_per_kwh # None /\ Gt(price_per_kwh[1], Zero)
          /\ extra_daily_cost # None /\ Ge(extra_daily_cost[1], Zero)
          /\ threshold_kwh # None /\ Ge(threshold_kwh[1], Zero)
    /\ price_per_kwh # None => Gt(price_per_kwh[1], Zero)
    /\ extra_daily_cost # None => Ge(extra_daily_cost[1], Zero)
    /\ threshold_kwh # None => Ge(threshold_kwh[1], Zero)

---------------------------------------------------------------------------
(* format_table applied to well-formed tables *)

\* most rows of a table
MaxRows == 2

HeaderLists ==
    { <<>>,
      <<<<"R", "o", "o", "m">>>>,
      <<<<"I", "D">>, <<"N", "a", "m", "e">>>>,
      <<<<"R", "o", "o", "m">>, <<"E", "x", "p", "e", "c", "t", "e", "d", " ", "M", "o", "n", "t", "h", "l", "y", " ", "C", "o", "s", "t">>>> }

BodyCells == {<<>>, Hall, Kitchen}

RowLists(n) ==
    UNION { [1..r -> [1..n -> BodyCells]] : r \in 0..MaxRows }

InitTable ==
    /\ headers \in HeaderLists
    /\ rows \in RowLists(Len(headers))
    /\ table = None
    /\ devices = <<>>
    /\ call = NoCall
    /\ MainIdle

FormatTable ==
    /\ table = None
    /\ table' = Some(format_table(headers, rows))
    /\ UNCHANGED <<mainVars, devices, call, headers, rows>>

NextTable == FormatTable

SpecTable == InitTable /\ [][NextTable]_vars

\* text.split("\n"): the lines between the line breaks
SplitLines(text) ==
    LET breaks == {i \in 1..Len(text) : text[i] = "\n"}
        from(k) == IF k = 1 THEN 1 ELSE Nth(breaks, k - 1) + 1
        to(k) == IF k = Cardinality(breaks) + 1 THEN Len(text)
                 ELSE Nth(breaks, k) - 1
    IN  [k \in 1..(Cardinality(breaks) + 1) |-> SubSeq(text, from(k), to(k))]

\* the width of column i: the longest of its header and its cells
ColumnWidth(i) ==
    CHOOSE w \in {Len(headers[i])} \cup {Len(rows[j][i]) : j \in 1..Len(rows)} :
        /\ w >= Len(headers[i])
        /\ \A j \in 1..Len(rows) : w >= Len(rows[j][i])

RECURSIVE SumWidths(_)
SumWidths(i) == IF i = 0 THEN 0 ELSE SumWidths(i - 1) + ColumnWidth(i)

\* where column i starts in a line
ColumnStart(i) == SumWidths(i - 1) + 3 * (i - 1)

\* line shows the cells, each left-justified in its column
ShowsCells(line, cells) ==
    \A i \in 1..Len(headers) :
        SubSeq(line, ColumnStart(i) + 1, ColumnStart(i) + ColumnWidth(i))
            = cells[i] \o Repeat(" ", ColumnWidth(i) - Len(cells[i]))

\* C10: for rows with as many cells as there are headers, format_table returns
\* len(rows) + 2 lines: the header line, a separator, one line per row in input
\* order; column i is as wide as the longest of its header and cells, every cell
\* is left-justified to that width, and every line, the separator included, is as
\* long as the sum of the column widths plus 3 per column gap.
C10_FormatTable ==
    table # None =>
        LET lines == SplitLines(table[1])
            n == Len(headers)
            width == SumWidths(n) + 3 * Max(n - 1, 0)
        IN  /\ Len(lines) = Len(rows) + 2
            /\ \A j \in 1..Len(lines) : Len(lines[j]) = width
            /\ ShowsCells(lines[1], headers)
            /\ Range(lines[2]) \subseteq {"-", "+"}
            /\ \A j \in 1..Len(rows) : ShowsCells(lines[j + 2], rows[j])

\* a two-column table with two rows, a cell longer than its header, a cell shorter
\* than its column, and an empty cell
C10_Witness ==
    /\ table # None
    /\ Len(headers) = 2
    /\ Len(rows) = 2
    /\ \E j \in 1..2 : Len(rows[j][1]) > Len(headers[1])
    /\ \E j \in 1..2 : rows[j][2] # <<>> /\ Len(rows[j][2]) < ColumnWidth(2)
    /\ \E j \in 1..2 : rows[j][1] = <<>>

====
